---- MODULE Spec2Model ----
(***************************************************************************)
(* Model of the /analyze request handler of analyzer/app.py.               *)
(*                                                                         *)
(* Text is a sequence of one-character strings.  The handler is followed   *)
(* from the moment the JSON body has been decoded to the moment it returns *)
(* a (body, status) pair or lets an exception escape.  The summarization   *)
(* pipeline is an external, deterministic function of the chunk it is      *)
(* given: its value on a chunk is fixed the first time the chunk is        *)
(* submitted and is the same on every later submission.                    *)
(***************************************************************************)
EXTENDS Integers, Sequences, FiniteSets, TLC

VARIABLES pc, data, content, chunks, summaries, calls, returns, resp,
          summarizer, served

vars == <<pc, data, content, chunks, summaries, calls, returns, resp,
          summarizer, served>>

(***************************************************************************)
(* Bounds of the model.                                                    *)
(***************************************************************************)
MaxShort == 3       \* every text of at most this many characters is an input
MaxChunks == 2      \* long inputs have about 1000 * k characters, k <= MaxChunks
MaxRequests == 3    \* requests served in a row by one process

(***************************************************************************)
(* Program constants.                                                      *)
(***************************************************************************)
ChunkSize == 1000

Alphabet == {"a", "b", " ", "\n"}

\* Characters str.strip() and str.split() treat as whitespace.
Whitespace == {" ", "\n", "\t", "\r"}

(***************************************************************************)
(* Python values that can sit under the 'content' key, and decoded bodies. *)
(***************************************************************************)
Str(s) == [type |-> "str", text |-> s]
NoneValue == [type |-> "NoneType", text |-> <<>>]
IntValue == [type |-> "int", text |-> <<>>]
Unset == [type |-> "unset", text |-> <<>>]

Dict(v) == [type |-> "dict", has |-> TRUE, value |-> v]
EmptyDict == [type |-> "dict", has |-> FALSE, value |-> NoneValue]
NoneData == [type |-> "NoneType", has |-> FALSE, value |-> NoneValue]

(***************************************************************************)
(* Inputs.  Short texts are enumerated exhaustively; long texts are a fill *)
(* character with the two characters on either side of the first chunk     *)
(* boundary (positions 1000 and 1001) drawn from the alphabet.             *)
(***************************************************************************)
ShortTexts == UNION {[1..k -> Alphabet] : k \in 0..MaxShort}

LongLens == UNION {{ChunkSize * k - 1, ChunkSize * k, ChunkSize * k + 1} :
                   k \in 1..MaxChunks}

Long(L, f, w) == [i \in 1..L |-> IF i = ChunkSize THEN w[1]
                                 ELSE IF i = ChunkSize + 1 THEN w[2]
                                 ELSE f]

LongTexts == {Long(L, f, w) : L \in LongLens, f \in {"a", " "},
                              w \in [1..2 -> Alphabet]}

Bodies == {Dict(Str(s)) : s \in ShortTexts \cup LongTexts}
            \cup {EmptyDict, NoneData, Dict(NoneValue), Dict(IntValue)}

RepeatBodies == {EmptyDict, Dict(IntValue), Dict(Str(<<"a">>)),
                 Dict(Str(<<" ">>)),
                 Dict(Str(Long(ChunkSize + 1, "a", <<"a", "a">>)))}

(***************************************************************************)
(* The summarization pipeline.                                             *)
(***************************************************************************)
\* Texts the pipeline can produce (min_length=30: never the empty text).
SummaryTexts == {<<"s">>, <<"t", " ", "u">>}

\* Messages of the exceptions the pipeline can raise.
ErrorTexts == {"CUDA out of memory", "index out of range in self"}

Outcomes == [kind : {"ok"}, text : SummaryTexts, msg : {""}]
              \cup [kind : {"raise"}, text : {<<>>}, msg : ErrorTexts]

\* Mutant: the pipeline samples (do_sample=True), so a chunk it has already
\* answered can be answered differently.
SummarizerSamples(m, chunk) == Outcomes

\* summarizer(chunk, max_length=130, min_length=30, do_sample=False): what the
\* pipeline m (the set of <<chunk, outcome>> pairs already fixed) can answer.
SummarizerOutcomes(m, chunk) ==
  IF \E p \in m : p[1] = chunk
    THEN {p[2] : p \in {q \in m : q[1] = chunk}}
    ELSE Outcomes

(***************************************************************************)
(* String and list operations used by the handler.                         *)
(***************************************************************************)
\* dict.get(key, default)
DictGet(d, default) == IF d.has THEN d.value ELSE default

\* Mutant: content.strip(' '), which strips blanks only.
StripBlanks(s) ==
  LET lo == CHOOSE i \in 1..(Len(s) + 1) :
              /\ i = Len(s) + 1 \/ s[i] # " "
              /\ \A j \in 1..(i - 1) : s[j] = " "
      hi == CHOOSE i \in (lo - 1)..Len(s) :
              /\ i = lo - 1 \/ s[i] # " "
              /\ \A j \in (i + 1)..Len(s) : s[j] = " "
  IN  SubSeq(s, lo, hi)

\* str.strip(): advance lo over leading whitespace, retreat hi over trailing
\* whitespace (never below lo - 1), return s[lo..hi].
Strip(s) ==
  LET lo == CHOOSE i \in 1..(Len(s) + 1) :
              /\ i = Len(s) + 1 \/ s[i] \notin Whitespace
              /\ \A j \in 1..(i - 1) : s[j] \in Whitespace
      hi == CHOOSE i \in (lo - 1)..Len(s) :
              /\ i = lo - 1 \/ s[i] \notin Whitespace
              /\ \A j \in (i + 1)..Len(s) : s[j] \in Whitespace
  IN  SubSeq(s, lo, hi)

\* range(start, stop, step) as a list, for step > 0.
Range(start, stop, step) ==
  LET members == {i \in start..(stop - 1) : (i - start) % step = 0}
  IN  [k \in 1..Cardinality(members) |->
         CHOOSE x \in members : Cardinality({y \in members : y < x}) = k - 1]

\* Mutant: the slice stops one character early (content[i:i+999]).
SliceShort(s, lo, hi) ==
  SubSeq(s, lo + 1, IF hi - 1 < Len(s) THEN hi - 1 ELSE Len(s))

\* s[lo:hi] for 0 <= lo <= hi (0-based, end exclusive, clamped to len(s)).
Slice(s, lo, hi) == SubSeq(s, lo + 1, IF hi < Len(s) THEN hi ELSE Len(s))

\* [content[i:i+1000] for i in range(0, len(content), 1000)]
Chunks(s) ==
  LET r == Range(0, Len(s), ChunkSize)
  IN  [k \in DOMAIN r |-> Slice(s, r[k], r[k] + ChunkSize)]

\* Mutant: a separator is written after every element, the last included.
RECURSIVE JoinTrailing(_, _)
JoinTrailing(sep, xs) ==
  IF xs = <<>> THEN <<>>
  ELSE xs[1] \o sep \o JoinTrailing(sep, Tail(xs))

\* sep.join(xs)
RECURSIVE Join(_, _)
Join(sep, xs) ==
  IF xs = <<>> THEN <<>>
  ELSE IF Len(xs) = 1 THEN xs[1]
  ELSE xs[1] \o sep \o Join(sep, Tail(xs))

\* str.split(sep) for a one-character separator: cut at every occurrence,
\* keeping empty segments.
RECURSIVE SplitSepFrom(_, _, _)
SplitSepFrom(s, sep, i) ==
  IF \A j \in i..Len(s) : s[j] # sep
    THEN <<SubSeq(s, i, Len(s))>>
    ELSE LET p == CHOOSE j \in i..Len(s) :
                    /\ s[j] = sep
                    /\ \A k \in i..(j - 1) : s[k] # sep
         IN  <<SubSeq(s, i, p - 1)>> \o SplitSepFrom(s, sep, p + 1)

\* Mutant: content.splitlines(), which drops an empty final segment.
SplitLines(s, sep) ==
  LET r == SplitSepFrom(s, sep, 1)
  IN  IF r[Len(r)] = <<>> THEN SubSeq(r, 1, Len(r) - 1) ELSE r

SplitSep(s, sep) == SplitSepFrom(s, sep, 1)

\* str.split() with no separator: scan from position i, skip whitespace,
\* take the run of non-whitespace characters, repeat.
RECURSIVE SplitFrom(_, _)
SplitFrom(s, i) ==
  IF \A j \in i..Len(s) : s[j] \in Whitespace
    THEN <<>>
    ELSE LET b == CHOOSE j \in i..Len(s) :
                    /\ s[j] \notin Whitespace
                    /\ \A k \in i..(j - 1) : s[k] \in Whitespace
             e == CHOOSE j \in (b + 1)..(Len(s) + 1) :
                    /\ j = Len(s) + 1 \/ s[j] \in Whitespace
                    /\ \A k \in (b + 1)..(j - 1) : s[k] \notin Whitespace
         IN  <<SubSeq(s, b, e - 1)>> \o SplitFrom(s, e)

\* Mutant: content.split(' '), which cuts at every blank and keeps empty
\* tokens.
SplitOnBlank(s) == SplitSepFrom(s, " ", 1)

Split(s) == SplitFrom(s, 1)

(***************************************************************************)
(* What the handler hands back to the framework.                           *)
(***************************************************************************)
NoResponse == [via |-> "none", status |-> 0, body |-> [none |-> TRUE]]

\* return jsonify(body), status
Returned(status, body) == [via |-> "return", status |-> status, body |-> body]

\* an exception that leaves analyze() uncaught
Propagated(exc) == [via |-> "raise", status |-> 0, body |-> [exception |-> exc]]

EmptyContentBody == [error |-> "Empty content"]

ErrorBody(msg) == [error |-> msg]

\* Mutant: the result is built without its line count.
ResultBodyNoLines(text, sums) ==
  [summary |-> Join(<<" ">>, sums),
   word_count |-> Len(Split(text))]

ResultBody(text, sums) ==
  [summary |-> Join(<<" ">>, sums),
   word_count |-> Len(Split(text)),
   line_count |-> Len(SplitSep(text, "\n"))]

(***************************************************************************)
(* State machine.                                                          *)
(***************************************************************************)
Init ==
  /\ pc = "idle"
  /\ data = NoneData
  /\ content = Unset
  /\ chunks = <<>>
  /\ summaries = <<>>
  /\ calls = <<>>
  /\ returns = <<>>
  /\ resp = NoResponse
  /\ summarizer = {}
  /\ served = <<>>

\* Lines 13-14 when the decoded body is not a dict: data.get raises.
ReceiveNoDict(d) ==
  /\ pc = "idle"
  /\ d.type # "dict"
  /\ data' = d
  /\ resp' = Propagated("AttributeError")
  /\ pc' = "done"
  /\ UNCHANGED <<content, chunks, summaries, calls, returns, summarizer, served>>

\* Lines 13-16 when 'content' is present and not a string: .strip raises.
ReceiveNoStr(d) ==
  /\ pc = "idle"
  /\ d.type = "dict"
  /\ DictGet(d, Str(<<>>)).type # "str"
  /\ data' = d
  /\ content' = DictGet(d, Str(<<>>))
  /\ resp' = Propagated("AttributeError")
  /\ pc' = "done"
  /\ UNCHANGED <<chunks, summaries, calls, returns, summarizer, served>>

\* Lines 13-17: the empty check succeeds.
ReceiveEmpty(d) ==
  /\ pc = "idle"
  /\ d.type = "dict"
  /\ DictGet(d, Str(<<>>)).type = "str"
  /\ Strip(DictGet(d, Str(<<>>)).text) = <<>>
  /\ data' = d
  /\ content' = DictGet(d, Str(<<>>))
  /\ resp' = Returned(400, EmptyContentBody)
  /\ pc' = "done"
  /\ UNCHANGED <<chunks, summaries, calls, returns, summarizer, served>>

\* Lines 13-21: the empty check fails, the chunk list is built.
ReceiveText(d) ==
  /\ pc = "idle"
  /\ d.type = "dict"
  /\ DictGet(d, Str(<<>>)).type = "str"
  /\ Strip(DictGet(d, Str(<<>>)).text) # <<>>
  /\ data' = d
  /\ content' = DictGet(d, Str(<<>>))
  /\ chunks' = Chunks(DictGet(d, Str(<<>>)).text)
  /\ pc' = "loop"
  /\ UNCHANGED <<summaries, calls, returns, resp, summarizer, served>>

\* Line 22: the comprehension submits the next chunk to the pipeline.
CallSummarizer ==
  /\ pc = "loop"
  /\ Len(summaries) < Len(chunks)
  /\ calls' = Append(calls, Len(summaries) + 1)
  /\ pc' = "call"
  /\ UNCHANGED <<data, content, chunks, summaries, returns, resp, summarizer, served>>

\* Line 22: the pipeline returns; [0]['summary_text'] is appended.
SummarizerReturns ==
  /\ pc = "call"
  /\ \E o \in SummarizerOutcomes(summarizer, chunks[calls[Len(calls)]]) :
       /\ o.kind = "ok"
       /\ summarizer' = summarizer \cup {<<chunks[calls[Len(calls)]], o>>}
       /\ returns' = Append(returns, o)
       /\ summaries' = Append(summaries, o.text)
  /\ pc' = "loop"
  /\ UNCHANGED <<data, content, chunks, calls, resp, served>>

\* Mutant: the summaries obtained so far are sent with the error.
SummarizerRaisesPartial ==
  /\ pc = "call"
  /\ \E o \in SummarizerOutcomes(summarizer, chunks[calls[Len(calls)]]) :
       /\ o.kind = "raise"
       /\ summarizer' = summarizer \cup {<<chunks[calls[Len(calls)]], o>>}
       /\ returns' = Append(returns, o)
       /\ resp' = Returned(500, [error |-> o.msg,
                                 summary |-> Join(<<" ">>, summaries)])
  /\ pc' = "done"
  /\ UNCHANGED <<data, content, chunks, summaries, calls, served>>

\* Mutant: no except clause, the pipeline's exception leaves analyze().
SummarizerRaisesUncaught ==
  /\ pc = "call"
  /\ \E o \in SummarizerOutcomes(summarizer, chunks[calls[Len(calls)]]) :
       /\ o.kind = "raise"
       /\ summarizer' = summarizer \cup {<<chunks[calls[Len(calls)]], o>>}
       /\ returns' = Append(returns, o)
       /\ resp' = Propagated("RuntimeError")
  /\ pc' = "done"
  /\ UNCHANGED <<data, content, chunks, summaries, calls, served>>

\* Mutant: a chunk whose summarization raised is skipped and the loop goes on.
SummarizerRaisesSkips ==
  /\ pc = "call"
  /\ \E o \in SummarizerOutcomes(summarizer, chunks[calls[Len(calls)]]) :
       /\ o.kind = "raise"
       /\ summarizer' = summarizer \cup {<<chunks[calls[Len(calls)]], o>>}
       /\ returns' = Append(returns, o)
       /\ summaries' = Append(summaries, <<>>)
  /\ pc' = "loop"
  /\ UNCHANGED <<data, content, chunks, calls, resp, served>>

\* Lines 22, 31-32: the pipeline raises; the except clause answers 500.
SummarizerRaises ==
  /\ pc = "call"
  /\ \E o \in SummarizerOutcomes(summarizer, chunks[calls[Len(calls)]]) :
       /\ o.kind = "raise"
       /\ summarizer' = summarizer \cup {<<chunks[calls[Len(calls)]], o>>}
       /\ returns' = Append(returns, o)
       /\ resp' = Returned(500, ErrorBody(o.msg))
  /\ pc' = "done"
  /\ UNCHANGED <<data, content, chunks, summaries, calls, served>>

\* Lines 23-29: every chunk is summarized; join, count and answer 200.
Respond ==
  /\ pc = "loop"
  /\ Len(summaries) = Len(chunks)
  /\ resp' = Returned(200, ResultBody(content.text, summaries))
  /\ pc' = "done"
  /\ UNCHANGED <<data, content, chunks, summaries, calls, returns, summarizer, served>>

\* The process takes the next request: every local of analyze() is fresh,
\* the pipeline loaded at line 9 is the same object.
NewRequest ==
  /\ pc = "done"
  /\ Len(served) + 1 < MaxRequests
  /\ served' = Append(served, [data |-> data, content |-> content, resp |-> resp])
  /\ pc' = "idle"
  /\ data' = NoneData
  /\ content' = Unset
  /\ chunks' = <<>>
  /\ summaries' = <<>>
  /\ calls' = <<>>
  /\ returns' = <<>>
  /\ resp' = NoResponse
  /\ UNCHANGED summarizer

Next ==
  \/ \E d \in Bodies : ReceiveNoDict(d)
  \/ \E d \in Bodies : ReceiveNoStr(d)
  \/ \E d \in Bodies : ReceiveEmpty(d)
  \/ \E d \in Bodies : ReceiveText(d)
  \/ CallSummarizer
  \/ SummarizerReturns
  \/ SummarizerRaises
  \/ Respond

Spec == Init /\ [][Next]_vars

NextRepeat ==
  \/ \E d \in RepeatBodies \cup {NoneData} : ReceiveNoDict(d)
  \/ \E d \in RepeatBodies : ReceiveNoStr(d)
  \/ \E d \in RepeatBodies : ReceiveEmpty(d)
  \/ \E d \in RepeatBodies : ReceiveText(d)
  \/ CallSummarizer
  \/ SummarizerReturns
  \/ SummarizerRaises
  \/ Respond
  \/ NewRequest

SpecRepeat == Init /\ [][NextRepeat]_vars

(***************************************************************************)
(* Properties.                                                             *)
(***************************************************************************)
TypeOK ==
  /\ pc \in {"idle", "loop", "call", "done"}
  /\ resp.via \in {"none", "return", "raise"}
  /\ summarizer \subseteq (Seq(Alphabet) \X Outcomes)

\* The decoded body is a JSON object whose 'content' is absent, empty or
\* made of whitespace only.
Blank(d) ==
  /\ d.type = "dict"
  /\ \/ ~d.has
     \/ /\ d.value.type = "str"
        /\ \A i \in 1..Len(d.value.text) : d.value.text[i] \in Whitespace

\* The request in progress got past the empty check of lines 16-17.
PassedCheck ==
  /\ pc # "idle"
  /\ data.type = "dict"
  /\ content.type = "str"
  /\ \E i \in 1..Len(content.text) : content.text[i] \notin Whitespace

Ceil(a, b) == (a + b - 1) \div b

RECURSIVE Concat(_)
Concat(xs) == IF xs = <<>> THEN <<>> ELSE xs[1] \o Concat(Tail(xs))

\* Position in the joined summary just before summary k starts.
RECURSIVE Offset(_, _)
Offset(xs, k) == IF k = 1 THEN 0 ELSE Offset(xs, k - 1) + Len(xs[k - 1]) + 1

Raised == \E i \in 1..Len(returns) : returns[i].kind = "raise"

Ok200 == resp.via = "return" /\ resp.status = 200

\* C1: a request whose content is absent, empty or whitespace-only is
\* answered 400 {"error": "Empty content"}; no chunk is produced and the
\* summarizer is never invoked for it.
C1_EmptyContent400 ==
  (pc # "idle" /\ Blank(data)) =>
     /\ pc = "done"
     /\ resp = Returned(400, [error |-> "Empty content"])
     /\ chunks = <<>>
     /\ calls = <<>>
     /\ returns = <<>>

\* C1 witness: a whitespace-only content longer than one chunk, holding a
\* newline, has been answered.
C1_Witness ==
  /\ pc = "done"
  /\ Blank(data)
  /\ data.has
  /\ Len(content.text) > ChunkSize
  /\ \E i \in 1..Len(content.text) : content.text[i] = "\n"
  /\ resp.status = 400

\* C2: a content that is not blank, every chunk of which was summarized
\* without an exception, is answered 200 with exactly the fields summary,
\* word_count and line_count, and the summary is not empty.
C2_Success200 ==
  (pc = "done" /\ PassedCheck /\ ~Raised) =>
     /\ resp.via = "return"
     /\ resp.status = 200
     /\ DOMAIN resp.body = {"summary", "word_count", "line_count"}
     /\ resp.body.summary # <<>>

\* C2 witness: a request of several chunks has been answered 200.
C2_Witness ==
  /\ pc = "done"
  /\ PassedCheck
  /\ ~Raised
  /\ Len(chunks) >= 2
  /\ Len(returns) = Len(chunks)
  /\ resp.status = 200

\* C3: once the summarizer has raised on a chunk the request is answered
\* 500 with the exception's message under "error" and nothing else: no
\* summary field, whatever summaries were obtained before.
C3_Raise500 ==
  Raised =>
     /\ pc = "done"
     /\ returns[Len(returns)].kind = "raise"
     /\ resp = Returned(500, [error |-> returns[Len(returns)].msg])
     /\ "summary" \notin DOMAIN resp.body

\* C3 witness: the summarizer raised on the middle chunk of three, after
\* a summary had been obtained for the first.
C3_Witness ==
  /\ pc = "done"
  /\ Len(chunks) = 3
  /\ Len(returns) = 2
  /\ returns[2].kind = "raise"
  /\ Len(summaries) = 1
  /\ resp.status = 500

\* C4: the chunk list is the positional partition of content into slices of
\* 1000 characters: ceil(L/1000) chunks, chunk k is characters
\* [1000(k-1), 1000k) cut at L, every chunk is non-empty and at most 1000
\* long, all but the last exactly 1000, and the chunks concatenate to content.
C4_Chunking ==
  PassedCheck =>
    LET s == content.text
        L == Len(content.text)
        n == Len(chunks)
    IN  /\ n = Ceil(L, 1000)
        /\ \A k \in 1..n :
             /\ Len(chunks[k]) >= 1
             /\ Len(chunks[k]) <= 1000
             /\ k < n => Len(chunks[k]) = 1000
             /\ \A i \in 1..Len(chunks[k]) :
                  chunks[k][i] = s[1000 * (k - 1) + i]
             /\ 1000 * (k - 1) + Len(chunks[k]) = (IF 1000 * k < L THEN 1000 * k ELSE L)
        /\ Concat(chunks) = s

\* C4 witness: a content of several chunks whose last chunk is short.
C4_Witness ==
  /\ PassedCheck
  /\ Len(chunks) >= 3
  /\ Len(chunks[Len(chunks)]) < ChunkSize
  /\ chunks[1] # chunks[2]

\* C5: in a 200 response summary is s_1 ' ' s_2 ... ' ' s_n, s_k being the
\* summarizer's output for chunk k: each s_k sits at its offset, one blank
\* follows each but the last, nothing precedes the first or follows the last.
C5_SummaryJoin ==
  Ok200 =>
    LET n == Len(chunks)
        sm == resp.body.summary
    IN  /\ Len(returns) = n
        /\ Len(summaries) = n
        /\ \A k \in 1..n :
             /\ <<chunks[k], returns[k]>> \in summarizer
             /\ returns[k].kind = "ok"
             /\ summaries[k] = returns[k].text
             /\ SubSeq(sm, Offset(summaries, k) + 1,
                           Offset(summaries, k) + Len(summaries[k])) = summaries[k]
             /\ k < n => sm[Offset(summaries, k) + Len(summaries[k]) + 1] = " "
        /\ Len(sm) = Offset(summaries, n) + Len(summaries[n])

\* C5 witness: a 200 response joining three summaries, not all alike.
C5_Witness ==
  /\ Ok200
  /\ Len(summaries) = 3
  /\ summaries[1] # summaries[2]

\* C6: in a 200 response word_count is the number of maximal runs of
\* non-whitespace characters of the original content, and is at least 1.
C6_WordCount ==
  Ok200 =>
    /\ resp.body.word_count =
         Cardinality({i \in 1..Len(content.text) :
                        /\ content.text[i] \notin Whitespace
                        /\ i = 1 \/ content.text[i - 1] \in Whitespace})
    /\ resp.body.word_count >= 1

\* C6 witness: a word that straddles the first chunk boundary, preceded by
\* whitespace, was counted once.
C6_Witness ==
  /\ Ok200
  /\ Len(chunks) >= 2
  /\ content.text[1] \in Whitespace
  /\ content.text[ChunkSize] \notin Whitespace
  /\ content.text[ChunkSize + 1] \notin Whitespace
  /\ resp.body.word_count = 1

\* C7: in a 200 response line_count is the number of newline characters of
\* the original content plus one.
C7_LineCount ==
  Ok200 =>
    resp.body.line_count =
      Cardinality({i \in 1..Len(content.text) : content.text[i] = "\n"}) + 1

\* C7 witness: a content ending in a newline was counted as two lines.
C7_Witness ==
  /\ Ok200
  /\ content.text[Len(content.text)] = "\n"
  /\ resp.body.line_count = 2

\* The requests answered so far, the one just answered included.
Answered ==
  IF pc = "done"
    THEN Append(served, [data |-> data, content |-> content, resp |-> resp])
    ELSE served

\* C8: two requests with identical content get identical responses,
\* whatever was served before or between them.
C8_SameContentSameResponse ==
  \A i, j \in 1..Len(Answered) :
    (/\ Answered[i].data.type = "dict"
     /\ Answered[j].data.type = "dict"
     /\ Answered[i].content = Answered[j].content)
      => Answered[i].resp = Answered[j].resp

\* C8 witness: the same two-chunk content was answered 200 twice, with a
\* request for another content answered in between.
C8_Witness ==
  /\ pc = "done"
  /\ Len(served) = 2
  /\ served[1].content = content
  /\ served[2].content # content
  /\ served[2].resp.via = "return"
  /\ Len(chunks) >= 2
  /\ Ok200

\* C9 as stated: every request ends in 200 with the result, 400 with
\* {"error": "Empty content"} or 500 with {"error": <exception text>}, and
\* every exception raised while handling it goes through the 500 path.
C9_Original ==
  pc = "done" =>
    /\ resp.via = "return"
    /\ \/ resp.status = 200 /\ DOMAIN resp.body = {"summary", "word_count", "line_count"}
       \/ resp.status = 400 /\ resp.body = [error |-> "Empty content"]
       \/ resp.status = 500 /\ DOMAIN resp.body = {"error"}

\* C9 amended: a request whose body is a JSON object with content absent or
\* a string ends in exactly one of 200 with the result, 400 with
\* {"error": "Empty content"} or 500 with {"error": <exception text>}, the
\* last exactly when the summarizer raised; a body that is not an object, or
\* a content that is not a string, raises before the try block and the
\* exception leaves analyze uncaught, with none of the three outcomes.
C9_Outcomes ==
  pc = "done" =>
    IF data.type = "dict" /\ content.type = "str"
      THEN /\ resp.via = "return"
           /\ resp.status \in {200, 400, 500}
           /\ resp.status = 200 =>
                /\ DOMAIN resp.body = {"summary", "word_count", "line_count"}
                /\ PassedCheck /\ ~Raised
           /\ resp.status = 400 =>
                /\ resp.body = [error |-> "Empty content"]
                /\ Blank(data)
           /\ resp.status = 500 =>
                /\ Raised
                /\ resp.body = [error |-> returns[Len(returns)].msg]
      ELSE /\ resp.via = "raise"
           /\ resp.body = [exception |-> "AttributeError"]
           /\ calls = <<>>

\* C9 witness: an exception raised by the summarizer inside the try block
\* was reported through the 500 path.
C9_Witness ==
  /\ pc = "done"
  /\ data.type = "dict"
  /\ content.type = "str"
  /\ Raised
  /\ resp.status = 500

\* C10: the summarizer is invoked for chunks 1, 2, ... in order, once each,
\* an invocation starting only when the previous one has returned; a 200
\* response has made ceil(L/1000) invocations; an invocation that raised is
\* the last one of its request.
C10_SequentialCalls ==
  /\ calls = [k \in 1..Len(calls) |-> k]
  /\ Len(calls) <= Len(chunks)
  /\ Len(calls) = Len(returns) + (IF pc = "call" THEN 1 ELSE 0)
  /\ \A i \in 1..Len(returns) :
       returns[i].kind = "raise" => (i = Len(returns) /\ Len(calls) = i /\ pc = "done")
  /\ Ok200 => Len(calls) = Ceil(Len(content.text), 1000)

\* C10 witness: the third chunk is being summarized after the first two
\* returned.
C10_Witness ==
  /\ pc = "call"
  /\ calls = <<1, 2, 3>>
  /\ Len(returns) = 2
====
